---- MODULE Spec2Model ----
(***************************************************************************)
(* A model of white_box: the plotting entry points (plotting.py) and the   *)
(* dataset preparation helpers (data.py).                                  *)
(*                                                                         *)
(* A caller holds one model and calls one public function at a time; pc    *)
(* is "idle" between calls and "done" when a call has ended, normally or   *)
(* by raising.  A tensor is a sequence over token positions of one integer *)
(* per position (the hidden dimension is collapsed); the results of the    *)
(* torch reductions (log-softmax, argmax, entropy, ...) are kept as terms. *)
(***************************************************************************)
EXTENDS Integers, Sequences, FiniteSets, TLC

VARIABLES
    numLayers,     \* the model: its number of transformer blocks
    hooks,         \* the model: capture points currently attached to it
    raisedBefore,  \* history: some earlier call ended by the forward pass raising
    pc,            \* "idle" | "done"
    fn,            \* the function of the current call
    args,          \* its arguments
    err,           \* the exception it ended with, "none" when it returned
    ret,           \* what it returned and the locals it left behind
    plots          \* the _plot_stream renderings made during the call

vars == <<numLayers, hooks, raisedBefore, pc, fn, args, err, ret, plots>>

----------------------------------------------------------------------------
(* Bounds of the model.                                                    *)

MaxLayers == 2
MaxSeq == 2
MaxPos == 2
MaxExtra == 3
MaxStride == 2
MaxRows == 5
MaxRecords == 3
MaxWords == 2
MaxModelLen == 3
HugeModelLen == 4096
MaxSplits == 3
BatchSize == 2

----------------------------------------------------------------------------
(* Python values.                                                          *)

None == <<>>
Some(x) == <<x>>
IsNone(o) == o = <<>>

Min(a, b) == IF a <= b THEN a ELSE b

\* s[start:end] for start >= 0 and end None or >= 0.
Slice(s, start, end) ==
    LET n == Len(s)
        lo == Min(start, n)
        hi == IF IsNone(end) THEN n ELSE Min(end[1], n)
    IN IF hi <= lo THEN <<>> ELSE SubSeq(s, lo + 1, hi)

\* s[::k] for k >= 1.
StrideUp(s, k) == [j \in 1..((Len(s) + k - 1) \div k) |-> s[(j - 1) * k + 1]]

\* s[::-k] for k >= 1.
StrideDown(s, k) == [j \in 1..((Len(s) + k - 1) \div k) |-> s[Len(s) - (j - 1) * k]]

\* reversed(s), np.flipud(s).
Reversed(s) == [j \in 1..Len(s) |-> s[Len(s) + 1 - j]]

----------------------------------------------------------------------------
(* The tokenizer and the model (external collaborators).                   *)

\* tokenizer.encode(text): a text is a sequence of words, one token each.
Encode(text) == [p \in 1..Len(text) |-> 10 + text[p]]

\* tokenizer.convert_ids_to_tokens(ids).
ConvertIdsToTokens(ids) == [p \in 1..Len(ids) |-> <<"tok", ids[p]>>]

\* The input embedding of the model.
Embed(ids) == [p \in 1..Len(ids) |-> ids[p]]

\* The attention sub-block of block i, and block i itself.
Attn(i, x) == [p \in 1..Len(x) |-> x[p] + i + 1]
Block(i, x) == [p \in 1..Len(x) |-> 2 * x[p] + i + 1]

\* The input of block i (the output of block i - 1).
RECURSIVE Hidden(_, _)
Hidden(i, ids) == IF i = 0 THEN Embed(ids) ELSE Block(i - 1, Hidden(i - 1, ids))

\* The model's logits: its head on the last block's output.
ModelLogits(L, ids) == [op |-> "E(ln_f)", x |-> Hidden(L, ids)]

----------------------------------------------------------------------------
(* ResidualStream and record_residual_stream (residual_stream.py).         *)
(* A stream is the ordered sequence of its entries [name, tensor]; the     *)
(* embeddings entry, when present, is the first.                           *)

EmbName == [kind |-> "embeddings", idx |-> 0]
AttnName(i) == [kind |-> "attn", idx |-> i]
LayerName(i) == [kind |-> "layer", idx |-> i]

\* The capture points record_residual_stream attaches, in attachment order.
CapturePoints(sublayers, L) ==
    IF sublayers
    THEN [j \in 1..(2 * L + 1) |->
            IF j = 1 THEN EmbName
            ELSE IF j % 2 = 0 THEN AttnName(j \div 2 - 1)
            ELSE LayerName((j - 1) \div 2 - 1)]
    ELSE [j \in 1..(L + 1) |-> IF j = 1 THEN EmbName ELSE LayerName(j - 2)]

\* What the forward pass produces at each point of the model, in execution order.
Fired(L, ids) ==
    [j \in 1..(2 * L + 1) |->
        IF j = 1 THEN [name |-> EmbName, tensor |-> Embed(ids)]
        ELSE IF j % 2 = 0
             THEN [name |-> AttnName(j \div 2 - 1),
                   tensor |-> Attn(j \div 2 - 1, Hidden(j \div 2 - 1, ids))]
             ELSE [name |-> LayerName((j - 1) \div 2 - 1),
                   tensor |-> Hidden((j - 1) \div 2, ids)]]

\* Every attached point appends what it observes, in invocation order.
RECURSIVE Capture(_, _)
Capture(fired, attached) ==
    IF fired = <<>> THEN <<>>
    ELSE LET n == Len(SelectSeq(attached, LAMBDA h : h = Head(fired).name))
         IN [j \in 1..n |-> Head(fired)] \o Capture(Tail(fired), attached)

\* The scope's exit removes the capture points the scope attached.
Detach(attached, mine) == SubSeq(attached, 1, Len(attached) - Len(mine))

\* stream.map(f): a new stream with the names of s; tensors[j] is f of the
\* tensor of entry j.
Map(s, tensors) == [j \in 1..Len(s) |-> [name |-> s[j].name, tensor |-> tensors[j]]]

\* stream.labels(), list(stream).
Labels(s) == [j \in 1..Len(s) |-> s[j].name]

----------------------------------------------------------------------------
(* _run_inference (plotting.py).                                           *)

\* Lines 203-206 with text and input_ids made mutually exclusive.
ResolveInputIdsExclusive(text, input_ids) ==
    IF IsNone(text) = IsNone(input_ids)
    THEN [err |-> "ValueError:text_or_input_ids", ids |-> <<>>]
    ELSE IF ~IsNone(text) THEN [err |-> "none", ids |-> Encode(text[1])]
    ELSE [err |-> "none", ids |-> input_ids[1]]

\* Lines 203-206: the input ids the forward pass is run on.
ResolveInputIds(text, input_ids) ==
    IF ~IsNone(text) THEN [err |-> "none", ids |-> Encode(text[1])]
    ELSE IF IsNone(input_ids)
         THEN [err |-> "ValueError:text_or_input_ids", ids |-> <<>>]
         ELSE [err |-> "none", ids |-> input_ids[1]]

\* Lines 208-210 with the scope left open when the forward pass raises.
RecordForwardNoFinally(H, L, ids, sublayers, raises) ==
    LET mine == CapturePoints(sublayers, L)
        attached == H \o mine
    IN [raised |-> raises,
        stream |-> IF raises THEN <<>> ELSE Capture(Fired(L, ids), attached),
        logits |-> IF raises THEN <<>> ELSE ModelLogits(L, ids),
        hooks |-> IF raises THEN attached ELSE Detach(attached, mine)]

\* Lines 208-210: the forward pass inside the recording scope.
RecordForward(H, L, ids, sublayers, raises) ==
    LET mine == CapturePoints(sublayers, L)
        attached == H \o mine
    IN [raised |-> raises,
        stream |-> IF raises THEN <<>> ELSE Capture(Fired(L, ids), attached),
        logits |-> IF raises THEN <<>> ELSE ModelLogits(L, ids),
        hooks |-> Detach(attached, mine)]

\* Lines 216-219: the position window.
Window(r, start_pos, end_pos) ==
    IF start_pos > 0
    THEN [logits |-> [op |-> r.logits.op, x |-> Slice(r.logits.x, start_pos, end_pos)],
          stream |-> Map(r.stream, [j \in 1..Len(r.stream) |->
                                      Slice(r.stream[j].tensor, start_pos, end_pos)]),
          tokens |-> Slice(r.tokens, start_pos, end_pos)]
    ELSE r

Failed(e, H, ran) ==
    [err |-> e, hooks |-> H, forwardRan |-> ran, ids |-> <<>>,
     tokens |-> <<>>, logits |-> <<>>, stream |-> <<>>]

\* Lines 210-221, once the recording scope has closed.
FinishInference(rec, a, ids) ==
    IF rec.raised THEN Failed("ModelError", rec.hooks, TRUE)
    ELSE [err |-> "none", hooks |-> rec.hooks, forwardRan |-> TRUE, ids |-> ids] @@
         Window([logits |-> rec.logits, stream |-> rec.stream,
                 tokens |-> ConvertIdsToTokens(ids)], a.start_pos, a.end_pos)

\* Lines 208-221, once the input ids are known.
InferenceOn(H, L, a, ids) ==
    FinishInference(RecordForward(H, L, ids, a.sublayers, a.raises), a, ids)

RunInference(H, L, a) ==
    IF a.model_or_name = "other" THEN Failed("ValueError:model_or_name", H, FALSE)
    ELSE IF ResolveInputIds(a.text, a.input_ids).err # "none"
    THEN Failed(ResolveInputIds(a.text, a.input_ids).err, H, FALSE)
    ELSE InferenceOn(H, L, a, ResolveInputIds(a.text, a.input_ids).ids)

----------------------------------------------------------------------------
(* _plot_stream (plotting.py).  A matrix row is kept with the entry it     *)
(* was stacked from.                                                       *)

PlotStream(color_stream, text_stream, x_labels, colorbar_label, layer_stride, vmax) ==
    LET color_matrix == StrideUp(color_stream, layer_stride)
        text_matrix == StrideUp(text_stream, layer_stride)
        y_labels == Labels(color_stream)
    IN [color |-> Reversed(color_matrix),
        annot |-> Reversed(text_matrix),
        cbar_label |-> colorbar_label,
        vmax |-> vmax,
        xticklabels |-> x_labels,
        yticklabels |-> StrideDown(y_labels, layer_stride)]

----------------------------------------------------------------------------
(* plot_logit_lens (plotting.py).                                          *)

\* The sum of the tensors of the last r entries of a stream of means.
RECURSIVE SumLast(_, _)
SumLast(means, r) ==
    IF r = 0 THEN 0 ELSE means[Len(means) + 1 - r].tensor + SumLast(means, r - 1)

\* Lines 43-47 with acc updated before it is added.
AddMeansInclusive(stream, means) ==
    LET n == Min(Len(stream), Len(means))
    IN [j \in 1..Len(stream) |->
          LET r == Len(stream) + 1 - j
          IN IF r <= n
             THEN [name |-> stream[j].name,
                   tensor |-> [p \in 1..Len(stream[j].tensor) |->
                                 stream[j].tensor[p] + SumLast(means, r)]]
             ELSE stream[j]]

\* Lines 43-47: acc is the sum of the means of the entries after this one.
AddMeans(stream, means) ==
    LET n == Min(Len(stream), Len(means))
    IN [j \in 1..Len(stream) |->
          LET r == Len(stream) + 1 - j
          IN IF r <= n
             THEN [name |-> stream[j].name,
                   tensor |-> [p \in 1..Len(stream[j].tensor) |->
                                 stream[j].tensor[p] + SumLast(means, r - 1)]]
             ELSE stream[j]]

\* Line 61: range(L - extra_decoder_layers, L).
DecoderRange(L, k) == [j \in 1..(IF k > 0 THEN k ELSE 0) |-> L - k + j - 1]

\* Line 62: layers[i], a Python list index.
IndexOk(L, i) == -L <= i /\ i < L
ListIndex(L, i) == IF i < 0 THEN i + L ELSE i

RECURSIVE ApplyBlocks(_, _)
ApplyBlocks(blocks, x) ==
    IF blocks = <<>> THEN x ELSE ApplyBlocks(Tail(blocks), Block(Head(blocks), x))

\* Lines 59-64: decode_fn; blocks is the list of the blocks x went through.
DecodeFn(L, k, x) ==
    LET blocks == [j \in 1..Len(DecoderRange(L, k)) |-> ListIndex(L, DecoderRange(L, k)[j])]
    IN [op |-> "log_softmax(E(ln_f))", blocks |-> blocks, x |-> ApplyBlocks(blocks, x)]

\* Line 50: the tuned lens and its log-softmax.
TunedFn(x) == [op |-> "log_softmax(tuned_lens)", blocks |-> <<>>, x |-> x]

\* Lines 68-74: the top token of each position, as a string.
TopString(lp) == [op |-> "replace(convert_ids_to_tokens(argmax))", of |-> lp]
TopStrings(hidden_lps) ==
    Map(hidden_lps, [j \in 1..Len(hidden_lps) |-> TopString(hidden_lps[j].tensor)])

\* stream.pairwise_map(f): a new stream, one entry shorter, of f on each
\* entry and its predecessor; tensors[j] is f of the tensors of entries j, j + 1.
PairwiseMap(s, tensors) ==
    [j \in 1..(Len(s) - 1) |-> [name |-> s[j + 1].name, tensor |-> tensors[j]]]

\* top_strings.embeddings = None
DropEmbeddings(s) == SelectSeq(s, LAMBDA e : e.name.kind # "embeddings")

\* The statistic op of every entry of s (and of other, where the metric has a
\* second operand), and of every entry and its successor.
Terms(op, s, other) == [j \in 1..Len(s) |-> [op |-> op, a |-> s[j].tensor, b |-> other]]
PairTerms(op, s) ==
    [j \in 1..(Len(s) - 1) |-> [op |-> op, a |-> s[j].tensor, b |-> s[j + 1].tensor]]

\* Lines 76-95 with an unknown metric falling back to the default, entropy.
MetricStatsDefault(metric, hidden_lps, top_strings, logits) ==
    IF metric \in {"geodesic", "js"}
    THEN [err |-> "none",
          stats |-> PairwiseMap(hidden_lps, PairTerms(metric, hidden_lps)),
          top |-> DropEmbeddings(top_strings), vmax |-> None]
    ELSE IF metric = "kl"
    THEN [err |-> "none",
          stats |-> Map(hidden_lps, Terms("kl", hidden_lps, logits)),
          top |-> top_strings, vmax |-> Some("log(vocab_size)")]
    ELSE [err |-> "none",
          stats |-> Map(hidden_lps, Terms("entropy", hidden_lps, <<>>)),
          top |-> top_strings, vmax |-> Some("log(vocab_size)")]

\* Lines 76-95: the metric; top is top_strings as these lines leave it.
MetricStats(metric, hidden_lps, top_strings, logits) ==
    IF metric = "ce"
    THEN [err |-> "NotImplementedError", stats |-> <<>>, top |-> top_strings, vmax |-> None]
    ELSE IF metric = "entropy"
    THEN [err |-> "none",
          stats |-> Map(hidden_lps, Terms("entropy", hidden_lps, <<>>)),
          top |-> top_strings, vmax |-> Some("log(vocab_size)")]
    ELSE IF metric = "geodesic"
    THEN [err |-> "none",
          stats |-> PairwiseMap(hidden_lps, PairTerms("geodesic", hidden_lps)),
          top |-> DropEmbeddings(top_strings), vmax |-> None]
    ELSE IF metric = "js"
    THEN [err |-> "none",
          stats |-> PairwiseMap(hidden_lps, PairTerms("js", hidden_lps)),
          top |-> DropEmbeddings(top_strings), vmax |-> None]
    ELSE IF metric = "kl"
    THEN [err |-> "none",
          stats |-> Map(hidden_lps, Terms("kl", hidden_lps, logits)),
          top |-> top_strings, vmax |-> Some("log(vocab_size)")]
    ELSE [err |-> "ValueError:unknown_metric", stats |-> <<>>, top |-> top_strings, vmax |-> None]

\* A call that ended at some line: what its locals hold there.
LensState(e, inf, stream, lps, created, top, stats, rendered) ==
    [err |-> e, hooks |-> inf.hooks, forwardRan |-> inf.forwardRan,
     tokens |-> inf.tokens, logits |-> inf.logits,
     captured |-> inf.stream, stream |-> stream, hidden_lps |-> lps,
     top_created |-> created, top_strings |-> top, stats |-> stats,
     plots |-> rendered]

\* Lines 97-105.
LensPlot(a, inf, stream, hidden_lps, created, m) ==
    IF m.err # "none"
    THEN LensState(m.err, inf, stream, hidden_lps, created, m.top, <<>>, <<>>)
    ELSE LensState("none", inf, stream, hidden_lps, created, m.top, m.stats,
                   <<PlotStream(m.stats, m.top, inf.tokens, a.metric,
                                a.layer_stride, m.vmax)>>)

\* Lines 68-95.
LensAnnotate(a, inf, stream, hidden_lps) ==
    IF ~a.tokenizer
    THEN LensState("AttributeError:tokenizer", inf, stream, hidden_lps, <<>>, <<>>, <<>>, <<>>)
    ELSE LensPlot(a, inf, stream, hidden_lps, TopStrings(hidden_lps),
                  MetricStats(a.metric, hidden_lps, TopStrings(hidden_lps), inf.logits))

\* Lines 49-66.
LensDecode(L, a, inf, stream) ==
    IF ~a.tuned_lens /\ \E j \in 1..Len(DecoderRange(L, a.extra_decoder_layers)) :
                            ~IndexOk(L, DecoderRange(L, a.extra_decoder_layers)[j])
    THEN LensState("IndexError:layers", inf, stream, <<>>, <<>>, <<>>, <<>>, <<>>)
    ELSE LensAnnotate(a, inf, stream,
                      IF a.tuned_lens
                      THEN Map(stream, [j \in 1..Len(stream) |-> TunedFn(stream[j].tensor)])
                      ELSE Map(stream, [j \in 1..Len(stream) |->
                                 DecodeFn(L, a.extra_decoder_layers, stream[j].tensor)]))

\* Lines 43-105, once _run_inference has ended.
LensFrom(L, a, inf) ==
    IF inf.err # "none"
    THEN LensState(inf.err, inf, <<>>, <<>>, <<>>, <<>>, <<>>, <<>>)
    ELSE LensDecode(L, a, inf,
                    IF IsNone(a.residual_means) THEN inf.stream
                    ELSE AddMeans(inf.stream, a.residual_means[1]))

PlotLogitLens(H, L, a) == LensFrom(L, a, RunInference(H, L, a))

----------------------------------------------------------------------------
(* data.py.                                                                *)

MaxLengthCap == 2048

\* tokenizer.eos_token or "<|endoftext|>", as tokens: the EOS token is one
\* token; without one the literal is ordinary text to the tokenizer.
SepTokens(eos_token) == IF eos_token THEN <<0>> ELSE <<1, 2>>

\* Line 89: the tokens of sep.join(texts).
RECURSIVE JoinTokens(_, _)
JoinTokens(texts, sep) ==
    IF texts = <<>> THEN <<>>
    ELSE IF Len(texts) = 1 THEN Encode(texts[1])
    ELSE Encode(texts[1]) \o sep \o JoinTokens(Tail(texts), sep)

\* Line 90.
MaxLength(model_max_length) == Min(model_max_length, MaxLengthCap)

\* tokenizer(..., max_length=m, return_overflowing_tokens=True, truncation=True):
\* consecutive windows of at most m tokens; an empty text gives one empty window.
Windows(toks, m) ==
    IF toks = <<>> THEN << <<>> >>
    ELSE [j \in 1..((Len(toks) + m - 1) \div m) |->
            SubSeq(toks, (j - 1) * m + 1, Min(j * m, Len(toks)))]

\* Line 86 without the slice, and with v[1:].
KeepAll(v) == v
DropFirst(v) == SubSeq(v, 2, Len(v))

\* Line 86: v[:-1].
DropLast(v) == SubSeq(v, 1, Len(v) - 1)

\* Lines 82-94.
TokenizeFn(texts, model_max_length, eos_token) ==
    LET toks == JoinTokens(texts, SepTokens(eos_token))
        ws == Windows(toks, MaxLength(model_max_length))
    IN [input_ids |-> DropLast(ws),
        attention_mask |-> DropLast([j \in 1..Len(ws) |-> [p \in 1..Len(ws[j]) |-> 1]]),
        overflow_to_sample_mapping |-> DropLast([j \in 1..Len(ws) |-> 0])]

\* Lines 108-116 with the splits' columns compared as sets.
GetColumnsSetEqual(kind, cols_by_split) ==
    IF kind = "DatasetDict"
    THEN IF cols_by_split = <<>> THEN [err |-> "StopIteration", columns |-> <<>>]
         ELSE IF ~\A j \in 1..Len(cols_by_split) :
                    {cols_by_split[j][i] : i \in 1..Len(cols_by_split[j])}
                    = {cols_by_split[1][i] : i \in 1..Len(cols_by_split[1])}
         THEN [err |-> "ValueError:columns", columns |-> <<>>]
         ELSE [err |-> "none", columns |-> cols_by_split[1]]
    ELSE [err |-> "none", columns |-> cols_by_split[1]]

\* Lines 108-116: cols_by_split is the list of the splits' column lists.
GetColumnsAllEqual(kind, cols_by_split) ==
    IF kind = "DatasetDict"
    THEN IF cols_by_split = <<>> THEN [err |-> "StopIteration", columns |-> <<>>]
         ELSE IF ~\A j \in 1..Len(cols_by_split) : cols_by_split[j] = cols_by_split[1]
         THEN [err |-> "ValueError:columns", columns |-> <<>>]
         ELSE [err |-> "none", columns |-> cols_by_split[1]]
    ELSE [err |-> "none", columns |-> cols_by_split[1]]

\* Dataset.map(batched=True): consecutive batches of batch_size rows.
Batches(rows, batch_size) ==
    [j \in 1..((Len(rows) + batch_size - 1) \div batch_size) |->
        SubSeq(rows, (j - 1) * batch_size + 1, Min(j * batch_size, Len(rows)))]

\* The rows a batch maps to, with the columns with_format keeps (lines 40-45).
BatchRows(texts, model_max_length, eos_token) ==
    LET out == TokenizeFn(texts, model_max_length, eos_token)
    IN [j \in 1..Len(out.input_ids) |->
          [input_ids |-> out.input_ids[j], attention_mask |-> out.attention_mask[j]]]

RECURSIVE MapBatches(_, _, _)
MapBatches(batches, model_max_length, eos_token) ==
    IF batches = <<>> THEN <<>>
    ELSE BatchRows(Head(batches), model_max_length, eos_token)
         \o MapBatches(Tail(batches), model_max_length, eos_token)

\* Lines 35-45: every split holds the rows of data.rows under its own columns.
ChunkAndTokenize(data, model_max_length, eos_token, batch_size) ==
    LET cols == GetColumnsAllEqual(data.kind, data.columns) IN
    IF cols.err # "none" THEN [err |-> cols.err, splits |-> <<>>]
    ELSE IF \E j \in 1..Len(cols.columns) : cols.columns[j] = "text"
    THEN [err |-> "none",
          splits |-> [j \in 1..Len(data.columns) |->
                        MapBatches(Batches(data.rows, batch_size), model_max_length, eos_token)]]
    ELSE [err |-> "KeyError:text", splits |-> <<>>]

----------------------------------------------------------------------------
(* The arguments a caller may pass.                                        *)

Text(n) == [p \in 1..n |-> p]
Texts == {Text(n) : n \in 1..MaxSeq}
InputIds == {[p \in 1..n |-> 20 + p] : n \in 1..MaxSeq}
Option(S) == {None} \cup {Some(x) : x \in S}
SeqsUpTo(S, n) == UNION {[1..k -> S] : k \in 0..n}

InferenceArgs ==
    [model_or_name : {"model", "name", "other"},
     text : Option(Texts),
     input_ids : Option(InputIds),
     sublayers : BOOLEAN,
     start_pos : 0..MaxPos,
     end_pos : Option(0..MaxPos),
     raises : BOOLEAN]

Metrics == {"ce", "entropy", "geodesic", "js", "kl", "bogus"}

\* A stream of per-entry means, one scalar per entry.
MeansStream(v, sublayers, L) ==
    [j \in 1..Len(CapturePoints(sublayers, L)) |->
        [name |-> CapturePoints(sublayers, L)[j], tensor |-> v]]

LensArgs(L) ==
    {[model_or_name |-> "model", text |-> t, input_ids |-> i, sublayers |-> s,
      start_pos |-> sp, end_pos |-> ep, raises |-> r, tokenizer |-> tk,
      metric |-> m, extra_decoder_layers |-> k, layer_stride |-> st,
      residual_means |-> IF IsNone(rm) THEN None ELSE Some(MeansStream(rm[1], s, L)),
      tuned_lens |-> tl] :
        t \in Option({Text(MaxSeq)}), i \in Option({[p \in 1..1 |-> 21]}),
        s \in BOOLEAN, sp \in 0..1, ep \in Option({1}), r \in BOOLEAN,
        tk \in BOOLEAN, m \in Metrics, k \in 0..MaxExtra, st \in 1..MaxStride,
        rm \in Option(0..1),
        tl \in BOOLEAN}

\* A stream of n entries, for a direct call of _plot_stream.
StreamOf(n, what) ==
    [j \in 1..n |-> [name |-> IF j = 1 THEN EmbName ELSE LayerName(j - 2),
                     tensor |-> <<what, j>>]]

\* Short batches under every tokenizer, and one text longer than the cap of
\* line 90 under a tokenizer whose own limit is above the cap.
TokenizeArgs ==
    [texts : SeqsUpTo({Text(n) : n \in 0..MaxWords}, MaxRecords) \ {<<>>},
     model_max_length : (1..MaxModelLen) \cup {HugeModelLen},
     eos_token : BOOLEAN]
    \cup [texts : {<<Text(MaxLengthCap + 1)>>},
          model_max_length : {HugeModelLen},
          eos_token : BOOLEAN]

ColumnLists == {<<>>, <<"text">>, <<"meta">>, <<"text", "meta">>, <<"meta", "text">>}

ColumnsArgs ==
    {[kind |-> "Dataset", columns |-> <<c>>] : c \in ColumnLists}
    \cup {[kind |-> "DatasetDict", columns |-> cs] : cs \in SeqsUpTo(ColumnLists, MaxSplits)}

ChunkArgs ==
    [data : {[kind |-> c.kind, columns |-> c.columns, rows |-> rows] :
                c \in {c \in ColumnsArgs : Len(c.columns) <= 2},
                rows \in SeqsUpTo({Text(n) : n \in 0..MaxWords}, MaxRecords) \ {<<>>}},
     model_max_length : 1..MaxModelLen,
     eos_token : BOOLEAN]

----------------------------------------------------------------------------
(* The calls.                                                              *)

Init ==
    /\ numLayers \in 1..MaxLayers
    /\ hooks = <<>>
    /\ raisedBefore = FALSE
    /\ pc = "idle"
    /\ fn = "none"
    /\ args = <<>>
    /\ err = "none"
    /\ ret = <<>>
    /\ plots = <<>>

RunInferenceCall ==
    /\ pc = "idle"
    /\ \E a \in InferenceArgs :
        LET r == RunInference(hooks, numLayers, a) IN
        /\ fn' = "_run_inference"
        /\ args' = a
        /\ err' = r.err
        /\ ret' = r
        /\ hooks' = r.hooks
    /\ pc' = "done"
    /\ UNCHANGED <<numLayers, raisedBefore, plots>>

PlotLogitLensCall ==
    /\ pc = "idle"
    /\ \E a \in LensArgs(numLayers) :
        LET r == PlotLogitLens(hooks, numLayers, a) IN
        /\ fn' = "plot_logit_lens"
        /\ args' = a
        /\ err' = r.err
        /\ ret' = r
        /\ hooks' = r.hooks
        /\ plots' = r.plots
    /\ pc' = "done"
    /\ UNCHANGED <<numLayers, raisedBefore>>

PlotStreamCall ==
    /\ pc = "idle"
    /\ \E n \in 1..MaxRows, st \in 1..MaxStride :
        /\ fn' = "_plot_stream"
        /\ args' = [color_stream |-> StreamOf(n, "color"),
                    text_stream |-> StreamOf(n, "text"), layer_stride |-> st]
        /\ plots' = <<PlotStream(StreamOf(n, "color"), StreamOf(n, "text"),
                                 <<>>, "", st, None)>>
    /\ err' = "none"
    /\ ret' = <<>>
    /\ pc' = "done"
    /\ UNCHANGED <<numLayers, hooks, raisedBefore>>

TokenizeFnCall ==
    /\ pc = "idle"
    /\ \E a \in TokenizeArgs :
        /\ fn' = "_tokenize_fn"
        /\ args' = a
        /\ ret' = TokenizeFn(a.texts, a.model_max_length, a.eos_token)
    /\ err' = "none"
    /\ pc' = "done"
    /\ UNCHANGED <<numLayers, hooks, raisedBefore, plots>>

ChunkAndTokenizeCall ==
    /\ pc = "idle"
    /\ \E a \in ChunkArgs :
        LET r == ChunkAndTokenize(a.data, a.model_max_length, a.eos_token, BatchSize) IN
        /\ fn' = "chunk_and_tokenize"
        /\ args' = a
        /\ err' = r.err
        /\ ret' = r
    /\ pc' = "done"
    /\ UNCHANGED <<numLayers, hooks, raisedBefore, plots>>

GetColumnsCall ==
    /\ pc = "idle"
    /\ \E a \in ColumnsArgs :
        LET r == GetColumnsAllEqual(a.kind, a.columns) IN
        /\ fn' = "get_columns_all_equal"
        /\ args' = a
        /\ err' = r.err
        /\ ret' = r
    /\ pc' = "done"
    /\ UNCHANGED <<numLayers, hooks, raisedBefore, plots>>

\* The caller takes the result (or the exception) and is free to call again.
Return ==
    /\ pc = "done"
    /\ pc' = "idle"
    /\ raisedBefore' = (raisedBefore \/ err = "ModelError")
    /\ fn' = "none"
    /\ args' = <<>>
    /\ err' = "none"
    /\ ret' = <<>>
    /\ plots' = <<>>
    /\ UNCHANGED <<numLayers, hooks>>

Next ==
    \/ RunInferenceCall
    \/ PlotLogitLensCall
    \/ PlotStreamCall
    \/ TokenizeFnCall
    \/ ChunkAndTokenizeCall
    \/ GetColumnsCall
    \/ Return

Spec == Init /\ [][Next]_vars

----------------------------------------------------------------------------
(* Properties.                                                             *)

Done(f) == pc = "done" /\ fn = f
Range(s) == {s[j] : j \in 1..Len(s)}

\* The error taxonomy: which Python exception stands for which error.
ErrorKind(e) ==
    IF e \in {"ValueError:text_or_input_ids", "ValueError:model_or_name", "ValueError:columns"}
    THEN "InvalidArgument"
    ELSE IF e \in {"ValueError:unknown_metric", "NotImplementedError"}
    THEN "UnsupportedMetric"
    ELSE e

\* _run_inference got as far as returning (also inside plot_logit_lens).
InferenceReturned ==
    /\ pc = "done"
    /\ fn \in {"_run_inference", "plot_logit_lens"}
    /\ ret.forwardRan
    /\ err # "ModelError"

\* The stream _run_inference returned.
Returned == IF fn = "plot_logit_lens" THEN ret.captured ELSE ret.stream

(* C1: whatever calls came before and however they ended, no capture point *)
(* is attached to the model once a call has ended, and a call whose        *)
(* forward pass succeeds records exactly one entry per capture point of    *)
(* that call, in attachment order.                                         *)
C1_NoLeakedCapturePoints ==
    /\ hooks = <<>>
    /\ InferenceReturned => Labels(Returned) = CapturePoints(args.sublayers, numLayers)

C1_Witness ==
    /\ Done("_run_inference")
    /\ raisedBefore
    /\ err = "none"
    /\ args.sublayers
    /\ Len(ret.stream) = 2 * numLayers + 1

(* C2 as stated: a metric name that plot_logit_lens does not know makes it *)
(* fail with UnsupportedMetric, and nothing is rendered.                   *)
SupportedMetrics == {"entropy", "geodesic", "js", "kl"}

DeclaredMetrics == SupportedMetrics \cup {"ce"}

C2_Original ==
    Done("plot_logit_lens") /\ args.metric \notin DeclaredMetrics =>
        /\ ErrorKind(err) = "UnsupportedMetric"
        /\ plots = <<>>

\* The stages of plot_logit_lens before the metric is looked at all succeed.
ReachesMetric ==
    /\ ~IsNone(args.text) \/ ~IsNone(args.input_ids)
    /\ ~args.raises
    /\ args.tuned_lens \/ args.extra_decoder_layers <= 2 * numLayers
    /\ args.tokenizer

(* C2 amended: a metric outside the supported set makes plot_logit_lens    *)
(* fail without rendering and without computing any statistic; the error   *)
(* is the metric's (ValueError for an unknown name, NotImplementedError    *)
(* for "ce") exactly when inference, decoding and the top-token lookup     *)
(* succeeded, and the earlier stage's error otherwise.                     *)
C2_FailsWithoutRendering ==
    Done("plot_logit_lens") /\ args.metric \notin SupportedMetrics =>
        /\ err # "none"
        /\ plots = <<>>
        /\ ret.stats = <<>>
        /\ ReachesMetric <=> ErrorKind(err) = "UnsupportedMetric"
        /\ ReachesMetric =>
             err = IF args.metric = "ce" THEN "NotImplementedError"
                   ELSE "ValueError:unknown_metric"

C2_Witness ==
    /\ Done("plot_logit_lens")
    /\ args.metric = "bogus"
    /\ err = "ValueError:unknown_metric"
    /\ ret.hidden_lps # <<>>
    /\ plots = <<>>

(* C3 as stated: _run_inference fails with InvalidArgument whenever        *)
(* neither or both of text and input_ids are given, and runs the forward   *)
(* pass only when exactly one is.                                          *)
ExactlyOneInput == IsNone(args.text) # IsNone(args.input_ids)

C3_Original ==
    Done("_run_inference") =>
        /\ ~ExactlyOneInput => ErrorKind(err) = "InvalidArgument"
        /\ ret.forwardRan => ExactlyOneInput

(* C3 amended: _run_inference fails with InvalidArgument whenever neither  *)
(* text nor input_ids is given; given a model, it runs the forward pass    *)
(* exactly when at least one is given, and when both are given it runs on  *)
(* the encoded text and ignores input_ids.                                 *)
C3_AtLeastOneInput ==
    Done("_run_inference") =>
        /\ IsNone(args.text) /\ IsNone(args.input_ids) => ErrorKind(err) = "InvalidArgument"
        /\ ret.forwardRan <=>
             /\ args.model_or_name # "other"
             /\ ~IsNone(args.text) \/ ~IsNone(args.input_ids)
        /\ err = "none" =>
             ret.ids = IF ~IsNone(args.text) THEN Encode(args.text[1]) ELSE args.input_ids[1]

C3_Witness ==
    /\ Done("_run_inference")
    /\ ~IsNone(args.text)
    /\ ~IsNone(args.input_ids)
    /\ err = "none"
    /\ ret.ids = Encode(args.text[1])

(* C4: every record _tokenize_fn and chunk_and_tokenize emit holds exactly *)
(* max_length = min(tokenizer.model_max_length, 2048) tokens and an        *)
(* attention mask of that length.                                          *)
C4_FullWindowsOnly ==
    /\ Done("_tokenize_fn") =>
         /\ Len(ret.attention_mask) = Len(ret.input_ids)
         /\ \A j \in 1..Len(ret.input_ids) :
              /\ Len(ret.input_ids[j]) = Min(args.model_max_length, MaxLengthCap)
              /\ Len(ret.attention_mask[j]) = Min(args.model_max_length, MaxLengthCap)
    /\ Done("chunk_and_tokenize") /\ err = "none" =>
         \A k \in 1..Len(ret.splits) : \A j \in 1..Len(ret.splits[k]) :
              /\ Len(ret.splits[k][j].input_ids) = Min(args.model_max_length, MaxLengthCap)
              /\ Len(ret.splits[k][j].attention_mask) = Min(args.model_max_length, MaxLengthCap)

C4_Witness ==
    /\ Done("_tokenize_fn")
    /\ args.model_max_length > MaxLengthCap
    /\ Len(ret.input_ids) = 1
    /\ Len(ret.input_ids[1]) = MaxLengthCap

\* The tokens of the batch's joined text, and the window length.
BatchTokens == JoinTokens(args.texts, SepTokens(args.eos_token))
WindowLen == Min(args.model_max_length, MaxLengthCap)

\* The windows are the first count * WindowLen tokens, in order.
IsPrefixInWindows(count) ==
    /\ Len(ret.input_ids) = count
    /\ \A j \in 1..Len(ret.input_ids) : Len(ret.input_ids[j]) = WindowLen
    /\ \A i \in 1..(count * WindowLen) :
         ret.input_ids[((i - 1) \div WindowLen) + 1][((i - 1) % WindowLen) + 1] = BatchTokens[i]

(* C5 as stated: for a batch of n tokens _tokenize_fn emits exactly        *)
(* floor(n / max_length) windows, the first max_length * floor(n /         *)
(* max_length) tokens in order.                                            *)
C5_Original ==
    Done("_tokenize_fn") => IsPrefixInWindows(Len(BatchTokens) \div WindowLen)

(* C5 amended: _tokenize_fn always drops the last window: for a batch of   *)
(* n tokens it emits ceil(n / max_length) - 1 windows (none for n = 0),    *)
(* the first tokens in order; that is floor(n / max_length) windows unless *)
(* n is a positive multiple of max_length, when the last full window is    *)
(* dropped too.                                                            *)
C5_LastWindowDropped ==
    Done("_tokenize_fn") =>
        LET n == Len(BatchTokens) IN
        /\ IsPrefixInWindows(IF n = 0 THEN 0 ELSE (n - 1) \div WindowLen)
        /\ Len(ret.input_ids) = n \div WindowLen - (IF n > 0 /\ n % WindowLen = 0 THEN 1 ELSE 0)

C5_Witness ==
    /\ Done("_tokenize_fn")
    /\ Len(BatchTokens) = 2 * WindowLen
    /\ Len(args.texts) > 1
    /\ Len(ret.input_ids) = 1

(* C6 as stated: on a DatasetDict get_columns_all_equal fails with         *)
(* InvalidArgument exactly when two splits have different column sets and  *)
(* otherwise returns that set; on a Dataset it returns the columns.        *)
C6_Original ==
    Done("get_columns_all_equal") =>
        IF args.kind = "DatasetDict"
        THEN args.columns # <<>> =>
               /\ ErrorKind(err) = "InvalidArgument" <=>
                    \E i, j \in 1..Len(args.columns) :
                        Range(args.columns[i]) # Range(args.columns[j])
               /\ err = "none" => Range(ret.columns) = Range(args.columns[1])
        ELSE err = "none" /\ ret.columns = args.columns[1]

(* C6 amended: on a DatasetDict with at least one split                    *)
(* get_columns_all_equal fails with InvalidArgument exactly when some      *)
(* split's column list differs from the first split's, as ordered lists    *)
(* (the same columns in another order differ), and otherwise returns the   *)
(* first split's list; on a DatasetDict without splits it ends with        *)
(* StopIteration; on a Dataset it returns the columns.                     *)
C6_OrderedColumns ==
    Done("get_columns_all_equal") =>
        IF args.kind = "DatasetDict"
        THEN /\ args.columns = <<>> <=> err = "StopIteration"
             /\ ErrorKind(err) = "InvalidArgument" <=>
                  \E j \in 1..Len(args.columns) : args.columns[j] # args.columns[1]
             /\ err = "none" => ret.columns = args.columns[1]
        ELSE err = "none" /\ ret.columns = args.columns[1]

C6_Witness ==
    /\ Done("get_columns_all_equal")
    /\ args.kind = "DatasetDict"
    /\ Len(args.columns) = 2
    /\ Range(args.columns[1]) = Range(args.columns[2])
    /\ err = "ValueError:columns"

(* C7 as stated: after _run_inference has returned, plot_logit_lens leaves *)
(* the captured stream and every container derived from it as they were    *)
(* created.                                                                *)
C7_Original ==
    InferenceReturned /\ fn = "plot_logit_lens" =>
        /\ ret.stream = ret.captured
        /\ ret.top_strings = ret.top_created

\* plot_logit_lens got as far as the metric, with a pairwise one.
PairwiseMetricReached == ReachesMetric /\ args.metric \in {"geodesic", "js"}

(* C7 amended: plot_logit_lens changes containers in place in two cases    *)
(* only.  With residual_means given, every captured tensor gets the sum of *)
(* the means of the later entries added in place (the last entry keeps its *)
(* value, names and order stay); with metric js or geodesic, top_strings   *)
(* loses its embeddings entry.  In every other case the captured stream    *)
(* and top_strings stay as created.                                        *)
C7_InPlaceOnlyForMeansAndPairwise ==
    InferenceReturned /\ fn = "plot_logit_lens" =>
        /\ Labels(ret.stream) = Labels(ret.captured)
        /\ \A j \in 1..Len(ret.stream) : \A p \in 1..Len(ret.stream[j].tensor) :
             ret.stream[j].tensor[p] =
                ret.captured[j].tensor[p]
                + (IF IsNone(args.residual_means) THEN 0
                   ELSE args.residual_means[1][1].tensor * (Len(ret.stream) - j))
        /\ IF PairwiseMetricReached
           THEN /\ ret.top_created[1].name = EmbName
                /\ ret.top_strings = Tail(ret.top_created)
           ELSE ret.top_strings = ret.top_created

C7_Witness ==
    /\ Done("plot_logit_lens")
    /\ err = "none"
    /\ args.start_pos = 0
    /\ ~IsNone(args.residual_means)
    /\ ret.stream # ret.captured
    /\ ret.stream[Len(ret.stream)] = ret.captured[Len(ret.stream)]
    /\ args.metric = "js"
    /\ Len(ret.top_strings) = Len(ret.top_created) - 1

(* C8: the row labels _plot_stream hands to the renderer are parallel to   *)
(* the matrices: as many labels as rows, and each row labelled with the    *)
(* name of the entry that fills it.                                        *)
C8_LabelsParallelToRows ==
    Done("_plot_stream") =>
        /\ Len(plots[1].yticklabels) = Len(plots[1].color)
        /\ Len(plots[1].annot) = Len(plots[1].color)
        /\ \A r \in 1..Len(plots[1].color) :
             /\ plots[1].yticklabels[r] = plots[1].color[r].name
             /\ plots[1].yticklabels[r] = plots[1].annot[r].name

(* C9: in the algebraic branch decode_fn passes every entry through the    *)
(* final extra_decoder_layers blocks only, in increasing depth order and   *)
(* each at most once (all the blocks, once each, when there are fewer than *)
(* extra_decoder_layers).                                                  *)
C9_FinalBlocksInOrder ==
    Done("plot_logit_lens") /\ err = "none" /\ ~args.tuned_lens =>
        \A j \in 1..Len(ret.hidden_lps) :
            LET blocks == ret.hidden_lps[j].tensor.blocks IN
            /\ ret.hidden_lps[j].tensor.op = "log_softmax(E(ln_f))"
            /\ \A i \in 1..(Len(blocks) - 1) : blocks[i] < blocks[i + 1]
            /\ Range(blocks) = {i \in 0..(numLayers - 1) :
                                  i >= numLayers - args.extra_decoder_layers}

(* C10: tokens, final logits and every stream entry _run_inference returns *)
(* are restricted to the positions [start_pos, end_pos).                   *)
C10_SameWindow ==
    Done("_run_inference") /\ err = "none" =>
        /\ ret.tokens = Slice(ConvertIdsToTokens(ret.ids), args.start_pos, args.end_pos)
        /\ Len(ret.logits.x) = Len(ret.tokens)
        /\ \A j \in 1..Len(ret.stream) : Len(ret.stream[j].tensor) = Len(ret.tokens)

====
